---------------------------- MODULE Spec2Model ----------------------------
(***************************************************************************)
(* Model of graph-war's expression compiler and evaluator (src/graph.rs):  *)
(* the where-clause builder (Assigns::from_pairs), the AST builder         *)
(* (Function::from_pair), the evaluator (Function::eval) and the system    *)
(* that handles a submission (send_functions).                             *)
(*                                                                         *)
(* A source text is a sequence of words (its tokens in textual order,      *)
(* separated by single blanks); a where-clause is a sequence of lines, one *)
(* assignment per line.  The grammar file function.pest is not part of     *)
(* the sources, so the parser below follows the grammar of the written     *)
(* specification (4.1) and the rule names the builder matches on.          *)
(***************************************************************************)
EXTENDS Integers, Sequences, FiniteSets, TLC

VARIABLES
    players,            \* players[p].parametric: <<>> (None) or <<Parametric>>
    status,             \* the FunctionStatus text: [value, color]
    delayed,            \* number of DelayedEvent::AdvanceTurn spawned on the field
    textboxes_editable, \* TextboxesEditable.0
    buttons_enabled,    \* ButtonsEnabled.0
    rockets,            \* owners of the rockets in flight
    timer,              \* ticks elapsed on the rockets' Timer
    pc,                 \* position of the stepwise compile / evaluation
    input,              \* the submission being compiled: [where_str, fx_str, fy_str]
    pairs,              \* assign pairs of the where-clause still to be built
    idx,                \* enumerate() index of the next assign pair
    var_map,            \* VarIndexMap under construction
    assign_vec,         \* assignments built so far
    funcs,              \* x and y once built
    error,              \* <<>> or <<ParseError>> of the compile
    seen,               \* what the last builder step saw (history)
    sample              \* the sampled t and the evaluation's results (history)

vars == <<players, status, delayed, textboxes_editable, buttons_enabled, rockets,
          timer, pc, input, pairs, idx, var_map, assign_vec, funcs, error, seen,
          sample>>

None == <<>>
Some(x) == <<x>>
IsSome(o) == o # <<>>
Unwrap(o) == o[1]

(***************************************************************************)
(* Registries                                                              *)
(***************************************************************************)
CALL_1_FN_MAP ==
    {"sin", "cos", "tan", "asin", "acos", "atan", "sinh", "cosh", "tanh",
     "asinh", "acosh", "atanh", "ln", "log2", "log10", "sqrt", "cbrt", "abs",
     "sign", "floor", "ceil", "fract"}

CALL_2_FN_MAP == {"min", "max", "atan2"}

CONSTS == {"tau", "pi", "e"}

(***************************************************************************)
(* Words of the modelled texts                                             *)
(***************************************************************************)
Literals == {"0", "1", "2", "3", "4", "7"}

LiteralValue(w) ==
    CASE w = "0" -> 0 [] w = "1" -> 1 [] w = "2" -> 2
      [] w = "3" -> 3 [] w = "4" -> 4 [] w = "7" -> 7

AddSigns == {"+", "-"}
MulSigns == {"*", "/", "//", "%"}
Punct == AddSigns \cup MulSigns \cup {"^", "(", ")", "=", "EOI"}

IsIdent(w) == w \notin Literals /\ w \notin Punct

(***************************************************************************)
(* Tokens with their position: line, and column of the first character     *)
(***************************************************************************)
RECURSIVE ColOf(_, _)
ColOf(words, k) == IF k = 1 THEN 1 ELSE ColOf(words, k - 1) + Len(words[k - 1]) + 1

Tokenize(words, line) ==
    [k \in 1..Len(words) |-> [tok |-> words[k], line |-> line, col |-> ColOf(words, k)]]

Tok(ts, k) == IF k <= Len(ts) THEN ts[k].tok ELSE "EOI"

\* position of token k, or of the end of input
PosAt(ts, k, line) ==
    IF k <= Len(ts) THEN [line |-> ts[k].line, col |-> ts[k].col]
    ELSE IF Len(ts) = 0 THEN [line |-> line, col |-> 1]
    ELSE [line |-> line, col |-> ts[Len(ts)].col + Len(ts[Len(ts)].tok)]

(***************************************************************************)
(* Parser: FunctionParser::parse(Rule::func | Rule::assigns, text).         *)
(* A Pair is [rule, text, line, col, inner]; text is the first word of the *)
(* pair's span.                                                            *)
(***************************************************************************)
MkPair(rule, ts, k, inner) ==
    [rule |-> rule, text |-> ts[k].tok, line |-> ts[k].line, col |-> ts[k].col,
     inner |-> inner]

PFail(k) == [ok |-> FALSE, at |-> k]
PSucc(p, n) == [ok |-> TRUE, pair |-> p, next |-> n]

\* a rule with one inner pair, the result r of parsing it
WrapOne(rule, ts, k, r) ==
    IF r.ok THEN PSucc(MkPair(rule, ts, k, <<r.pair>>), r.next) ELSE r

\* a rule whose inner pairs tl.inner were collected up to tl.next
WrapSeq(rule, ts, k, tl) == PSucc(MkPair(rule, ts, k, tl.inner), tl.next)

TailEnd(acc, k) == [inner |-> acc, next |-> k]

RECURSIVE ParseExpr(_, _), ParseAdd(_, _), ParseMul(_, _), ParseNeg(_, _),
          ParseExp(_, _), ParseCall(_, _), ParsePrimary(_, _),
          ParseAddTail(_, _, _), ParseMulTail(_, _, _), ParseExpTail(_, _, _)

\* expr := add
ParseExpr(ts, k) == WrapOne("expr", ts, k, ParseAdd(ts, k))

AddTailNext(ts, k, acc, r) ==
    IF r.ok THEN ParseAddTail(ts, r.next, acc \o <<MkPair("add_op", ts, k, <<>>), r.pair>>)
    ELSE TailEnd(acc, k)

\* (("+"|"-") mul)*
ParseAddTail(ts, k, acc) ==
    IF Tok(ts, k) \in AddSigns THEN AddTailNext(ts, k, acc, ParseMul(ts, k + 1))
    ELSE TailEnd(acc, k)

AddFirst(ts, k, r) ==
    IF r.ok THEN WrapSeq("add", ts, k, ParseAddTail(ts, r.next, <<r.pair>>)) ELSE r

\* add := mul (("+"|"-") mul)*
ParseAdd(ts, k) == AddFirst(ts, k, ParseMul(ts, k))

MulTailNext(ts, k, acc, r) ==
    IF r.ok THEN ParseMulTail(ts, r.next, acc \o <<MkPair("mul_op", ts, k, <<>>), r.pair>>)
    ELSE TailEnd(acc, k)

\* (("*"|"/"|"//"|"%") neg)*
ParseMulTail(ts, k, acc) ==
    IF Tok(ts, k) \in MulSigns THEN MulTailNext(ts, k, acc, ParseNeg(ts, k + 1))
    ELSE TailEnd(acc, k)

MulFirst(ts, k, r) ==
    IF r.ok THEN WrapSeq("mul", ts, k, ParseMulTail(ts, r.next, <<r.pair>>)) ELSE r

\* mul := neg (("*"|"/"|"//"|"%") neg)*
ParseMul(ts, k) == MulFirst(ts, k, ParseNeg(ts, k))

\* neg := "-"? exp
ParseNeg(ts, k) ==
    WrapOne("neg", ts, k, ParseExp(ts, IF Tok(ts, k) = "-" THEN k + 1 ELSE k))

ExpTailNext(ts, k, acc, r) ==
    IF r.ok THEN ParseExpTail(ts, r.next, acc \o <<r.pair>>) ELSE TailEnd(acc, k)

\* ("^" call)*
ParseExpTail(ts, k, acc) ==
    IF Tok(ts, k) = "^" THEN ExpTailNext(ts, k, acc, ParseCall(ts, k + 1))
    ELSE TailEnd(acc, k)

ExpFirst(ts, k, r) ==
    IF r.ok THEN WrapSeq("exp", ts, k, ParseExpTail(ts, r.next, <<r.pair>>)) ELSE r

\* exp := call ("^" call)*
ParseExp(ts, k) == ExpFirst(ts, k, ParseCall(ts, k))

\* call_2 := name primary primary ;  call_1 := name primary
CallSecond(ts, k, a1, a2) ==
    IF a2.ok
    THEN PSucc(MkPair("call_2", ts, k, <<MkPair("func_name", ts, k, <<>>), a1.pair, a2.pair>>),
               a2.next)
    ELSE PSucc(MkPair("call_1", ts, k, <<MkPair("func_name", ts, k, <<>>), a1.pair>>), a1.next)

CallFirst(ts, k, a1) ==
    IF a1.ok THEN CallSecond(ts, k, a1, ParsePrimary(ts, a1.next))
    ELSE ParsePrimary(ts, k)

\* call := call_2 | call_1 | primary   (the longest call that parses)
ParseCall(ts, k) ==
    IF IsIdent(Tok(ts, k)) THEN CallFirst(ts, k, ParsePrimary(ts, k + 1))
    ELSE ParsePrimary(ts, k)

Paren(ts, k, r) ==
    IF ~r.ok THEN r
    ELSE IF Tok(ts, r.next) # ")" THEN PFail(r.next)
    ELSE PSucc(MkPair("primary", ts, k, <<r.pair>>), r.next + 1)

Primitive(rule, ts, k) ==
    PSucc(MkPair("primary", ts, k,
                 <<MkPair("primitive", ts, k, <<MkPair(rule, ts, k, <<>>)>>)>>), k + 1)

\* primary := "(" expr ")" | primitive ;  primitive := var | constant
ParsePrimary(ts, k) ==
    IF Tok(ts, k) = "(" THEN Paren(ts, k, ParseExpr(ts, k + 1))
    ELSE IF Tok(ts, k) \in Literals THEN Primitive("constant", ts, k)
    ELSE IF IsIdent(Tok(ts, k)) THEN Primitive("var", ts, k)
    ELSE PFail(k)

SyntaxError(ts, k, line) ==
    [variant |-> "ParsingError", message |-> "", pos |-> PosAt(ts, k, line)]

FuncResult(ts, r) ==
    IF ~r.ok THEN [ok |-> FALSE, error |-> SyntaxError(ts, r.at, 1)]
    ELSE IF r.next <= Len(ts) THEN [ok |-> FALSE, error |-> SyntaxError(ts, r.next, 1)]
    ELSE [ok |-> TRUE, pairs |-> <<MkPair("func", ts, 1, <<r.pair>>)>>]

ParseFuncTokens(ts) == FuncResult(ts, ParseExpr(ts, 1))

\* FunctionParser::parse(Rule::func, text): Ok(<<func pair>>) or Err(error)
ParseFunc(words) == ParseFuncTokens(Tokenize(words, 1))

AssignResult(ts, line, r) ==
    IF ~r.ok THEN [ok |-> FALSE, error |-> SyntaxError(ts, r.at, line)]
    ELSE IF r.next <= Len(ts) THEN [ok |-> FALSE, error |-> SyntaxError(ts, r.next, line)]
    ELSE [ok |-> TRUE,
          pair |-> MkPair("assign", ts, 1, <<MkPair("ident", ts, 1, <<>>), r.pair>>)]

ParseAssignTokens(ts, line) ==
    IF ~IsIdent(Tok(ts, 1)) THEN [ok |-> FALSE, error |-> SyntaxError(ts, 1, line)]
    ELSE IF Tok(ts, 2) # "=" THEN [ok |-> FALSE, error |-> SyntaxError(ts, 2, line)]
    ELSE AssignResult(ts, line, ParseExpr(ts, 3))

\* assign := identifier "=" expr
ParseAssign(words, line) == ParseAssignTokens(Tokenize(words, line), line)

EOIPair(n) == [rule |-> "EOI", text |-> "", line |-> n, col |-> 1, inner |-> <<>>]

RECURSIVE ParseLines(_, _, _)

LinesNext(lines, n, acc, r) ==
    IF r.ok THEN ParseLines(lines, n + 1, acc \o <<r.pair>>)
    ELSE [ok |-> FALSE, error |-> r.error]

\* FunctionParser::parse(Rule::assigns, text): Ok(<<assigns pair>>) or Err(error);
\* the inner pairs of the assigns pair are the assign pairs and EOI
ParseLines(lines, n, acc) ==
    IF n > Len(lines)
    THEN [ok |-> TRUE,
          pairs |-> <<[rule |-> "assigns", text |-> "", line |-> 1, col |-> 1,
                       inner |-> acc \o <<EOIPair(n)>>]>>]
    ELSE LinesNext(lines, n, acc, ParseAssign(lines[n], n))

ParseAssigns(lines) == ParseLines(lines, 1, <<>>)

(***************************************************************************)
(* f64 values.  A value is tracked exactly while it is a rational number   *)
(* n/d in lowest terms with |n| and d at most MaxMag; the named constants  *)
(* are kept by name; every other float (an irrational result, an infinity, *)
(* a NaN, a value out of the tracked range) is the one value Other.        *)
(* Overflow marks an evaluation that exhausted the stack.                  *)
(***************************************************************************)
MaxMag == 600

Other == [k |-> "other", n |-> 0, d |-> 1]
Overflow == [k |-> "overflow", n |-> 0, d |-> 1]
Named(name) == [k |-> name, n |-> 0, d |-> 1]
IsRat(v) == v.k = "rat"

Abs(i) == IF i < 0 THEN -i ELSE i

RECURSIVE GCD(_, _)
GCD(a, b) == IF b = 0 THEN a ELSE GCD(b, a % b)

\* the value n/d, d # 0
Rat(n, d) ==
    LET g == GCD(Abs(n), Abs(d))
        nn == (IF d < 0 THEN -n ELSE n) \div g
        dd == Abs(d) \div g
    IN  IF Abs(nn) > MaxMag \/ dd > MaxMag THEN Other
        ELSE [k |-> "rat", n |-> nn, d |-> dd]

IntV(i) == Rat(i, 1)

\* an arithmetic operation on two values: the stack overflow aborts, and
\* only tracked rationals are computed with
Lift2(a, b, r) ==
    IF a.k = "overflow" \/ b.k = "overflow" THEN Overflow
    ELSE IF IsRat(a) /\ IsRat(b) THEN r
    ELSE Other

FAdd(a, b) == Lift2(a, b, Rat(a.n * b.d + b.n * a.d, a.d * b.d))
FSub(a, b) == Lift2(a, b, Rat(a.n * b.d - b.n * a.d, a.d * b.d))
FMul(a, b) == Lift2(a, b, Rat(a.n * b.n, a.d * b.d))
FDiv(a, b) == Lift2(a, b, IF b.n = 0 THEN Other ELSE Rat(a.n * b.d, a.d * b.n))
FNeg(a) ==
    IF a.k = "overflow" THEN Overflow
    ELSE IF IsRat(a) /\ a.n # 0 THEN Rat(-a.n, a.d)
    ELSE Other

\* integer quotient rounded toward zero
TruncDiv(p, q) ==
    IF (p >= 0) = (q > 0) THEN Abs(p) \div Abs(q) ELSE -(Abs(p) \div Abs(q))

\* f64::trunc of a tracked rational, as an integer
Trunc(a) == TruncDiv(a.n, a.d)

\* the % of f64 (remainder with the sign of the dividend), b # 0
FRem(a, b) == FSub(a, FMul(b, IntV(Trunc(FDiv(a, b)))))

IsNegative(v) == IsRat(v) /\ v.n < 0

\* f64::div_euclid
DivEuclid(a, b) ==
    Lift2(a, b,
        IF b.n = 0 THEN Other
        ELSE LET q == FDiv(a, b)
             IN  IF ~IsRat(q) THEN Other
                 ELSE IF IsNegative(FRem(a, b))
                      THEN (IF b.n > 0 THEN IntV(Trunc(q) - 1) ELSE IntV(Trunc(q) + 1))
                      ELSE IntV(Trunc(q)))

\* a remainder that keeps the sign of the dividend
RemTruncating(a, b) == Lift2(a, b, IF b.n = 0 THEN Other ELSE FRem(a, b))

\* f64::rem_euclid
RemEuclid(a, b) ==
    Lift2(a, b,
        IF b.n = 0 THEN Other
        ELSE IF ~IsRat(FDiv(a, b)) THEN Other
        ELSE LET r == FRem(a, b)
             IN  IF IsNegative(r) THEN FAdd(r, Rat(Abs(b.n), b.d)) ELSE r)

RECURSIVE PowNat(_, _, _)
PowNat(b, e, acc) ==
    IF e = 0 \/ ~IsRat(acc) THEN acc ELSE PowNat(b, e - 1, FMul(acc, b))

\* f64::powf(b, e)
Powf(b, e) ==
    IF b.k = "overflow" \/ e.k = "overflow" THEN Overflow
    ELSE IF IsRat(e) /\ e.n = 0 THEN IntV(1)
    ELSE IF IsRat(e) /\ e.n = 1 /\ e.d = 1 THEN b
    ELSE IF IsRat(b) /\ b.n = 1 /\ b.d = 1 THEN IntV(1)
    ELSE IF ~(IsRat(b) /\ IsRat(e)) \/ e.d # 1 THEN Other
    ELSE IF b.n = -1 /\ b.d = 1 THEN (IF e.n % 2 = 0 THEN IntV(1) ELSE IntV(-1))
    ELSE IF e.n > 0 THEN PowNat(b, e.n, IntV(1))
    ELSE IF b.n = 0 THEN Other
    ELSE PowNat(Rat(b.d, b.n), -e.n, IntV(1))

\* CALL_1_FNS[call as usize](v)
Call1_call(call, v) ==
    IF v.k = "overflow" THEN Overflow
    ELSE IF ~IsRat(v) THEN Other
    ELSE CASE call = "abs" -> Rat(Abs(v.n), v.d)
           [] call = "sign" -> (IF v.n > 0 THEN IntV(1) ELSE IF v.n < 0 THEN IntV(-1) ELSE Other)
           [] call = "floor" ->
                (IF v.n >= 0 \/ v.d = 1 THEN IntV(Trunc(v)) ELSE IntV(Trunc(v) - 1))
           [] call = "ceil" ->
                (IF v.n > 0 /\ v.d # 1 THEN IntV(Trunc(v) + 1)
                 ELSE IF Trunc(v) = 0 /\ v.n < 0 THEN Other ELSE IntV(Trunc(v)))
           [] call = "fract" -> (IF v.n < 0 /\ v.d = 1 THEN Other ELSE FSub(v, IntV(Trunc(v))))
           [] OTHER -> Other

\* CALL_2_FNS[call as usize](v1, v2)
Call2_call(call, v1, v2) ==
    Lift2(v1, v2,
        CASE call = "min" -> (IF v1.n * v2.d <= v2.n * v1.d THEN v1 ELSE v2)
          [] call = "max" -> (IF v1.n * v2.d >= v2.n * v1.d THEN v1 ELSE v2)
          [] OTHER -> Other)

(***************************************************************************)
(* enum Function                                                           *)
(***************************************************************************)
Var(index) == [tag |-> "Var", index |-> index]
Const(c) == [tag |-> "Const", c |-> c]
Neg(f) == [tag |-> "Neg", f |-> f]
Call1(call, f) == [tag |-> "Call1", call |-> call, f |-> f]
Call2(call, f1, f2) == [tag |-> "Call2", call |-> call, fs |-> <<f1, f2>>]
\* Add and Mul: fs is a sequence of [f, op];  Exp: fs is a sequence of Function
Variant(tag, fs) == [tag |-> tag, fs |-> fs]

Ok(f) == [ok |-> TRUE, f |-> f]
Err(e) == [ok |-> FALSE, error |-> e]

\* Error::new_from_span(ErrorVariant::CustomError { message }, pair.as_span())
Error_new_from_span(message, pair) ==
    [variant |-> "CustomError", message |-> message,
     pos |-> [line |-> pair.line, col |-> pair.col]]

\* iter.collect::<Result<Vec<_>, _>>(): the first error in order, or all values
Collect(results) ==
    IF \E k \in 1..Len(results) : ~results[k].ok
    THEN results[CHOOSE k \in 1..Len(results) :
                    ~results[k].ok /\ \A j \in 1..(k - 1) : results[j].ok]
    ELSE Ok([k \in 1..Len(results) |-> results[k].f])

\* signs.iter().find_map(|(sign, op)| (*sign == op_sign.as_str()).then(|| *op)).unwrap()
FindOp(signs, s) ==
    signs[CHOOSE k \in 1..Len(signs) :
            signs[k][1] = s /\ \A j \in 1..(k - 1) : signs[j][1] # s][2]

AddOps == <<<<"+", "Normal">>, <<"-", "Inverse">>>>
MulOps == <<<<"*", "Normal">>, <<"/", "Inverse">>, <<"//", "Third">>, <<"%", "Fourth">>>>

WithOp(r, op) == IF r.ok THEN Ok([f |-> r.f, op |-> op]) ELSE r

\* Ok(variant(vec)) of the collected vec, or its error
WrapVariant(variant, r) == IF r.ok THEN Ok(Variant(variant, r.f)) ELSE r

RECURSIVE FromPair(_, _)

\* an iterator whose first operand takes the operator of the first sign
MultiOpItemSigned(first, pair_vec, signs, vm, k) ==
    IF k = 1 THEN WithOp(FromPair(first, vm), FindOp(signs, pair_vec[1].text))
    ELSE WithOp(FromPair(pair_vec[2 * (k - 1)], vm),
                FindOp(signs, pair_vec[2 * (k - 1) - 1].text))

\* the element of from_multi_op_sequence's iterator for operand k (1-based)
MultiOpItem(first, pair_vec, signs, vm, k) ==
    IF k = 1 THEN WithOp(FromPair(first, vm), "Normal")
    ELSE WithOp(FromPair(pair_vec[2 * (k - 1)], vm),
                FindOp(signs, pair_vec[2 * (k - 1) - 1].text))

\* a from_multi_op_sequence that wraps a single operand as well
FromMultiOpSequenceWrapped(pair, variant, signs, vm) ==
    WrapVariant(variant,
        Collect([k \in 1..((Len(pair.inner) \div 2) + 1) |->
                    MultiOpItem(pair.inner[1], Tail(pair.inner), signs, vm, k)]))

FromMultiOpSequence(pair, variant, signs, vm) ==
    IF Len(pair.inner) > 1
    THEN WrapVariant(variant,
             Collect([k \in 1..((Len(pair.inner) \div 2) + 1) |->
                         MultiOpItem(pair.inner[1], Tail(pair.inner), signs, vm, k)]))
    ELSE FromPair(pair.inner[1], vm)

FromOpSequence(pair, variant, vm) ==
    IF Len(pair.inner) > 1
    THEN WrapVariant(variant,
             Collect([k \in 1..Len(pair.inner) |-> FromPair(pair.inner[k], vm)]))
    ELSE FromPair(pair.inner[1], vm)

\* a call_1 that builds its operand before it looks the name up
FromCall1OperandFirst(pair, vm) ==
    IF ~FromPair(pair.inner[2], vm).ok THEN FromPair(pair.inner[2], vm)
    ELSE IF pair.inner[1].text \in CALL_1_FN_MAP
    THEN Ok(Call1(pair.inner[1].text, FromPair(pair.inner[2], vm).f))
    ELSE Err(Error_new_from_span("unknown unary function: " \o pair.inner[1].text,
                                 pair.inner[1]))

Call1Result(call, r) == IF r.ok THEN Ok(Call1(call, r.f)) ELSE r

FromCall1(pair, vm) ==
    IF pair.inner[1].text \in CALL_1_FN_MAP
    THEN Call1Result(pair.inner[1].text, FromPair(pair.inner[2], vm))
    ELSE Err(Error_new_from_span("unknown unary function: " \o pair.inner[1].text,
                                 pair.inner[1]))

Call2Result(call, r1, r2) ==
    IF ~r1.ok THEN r1
    ELSE IF ~r2.ok THEN r2
    ELSE Ok(Call2(call, r1.f, r2.f))

FromCall2(pair, vm) ==
    IF pair.inner[1].text \in CALL_2_FN_MAP
    THEN Call2Result(pair.inner[1].text, FromPair(pair.inner[2], vm),
                     FromPair(pair.inner[3], vm))
    ELSE Err(Error_new_from_span("unknown binary function: " \o pair.inner[1].text,
                                 pair.inner[1]))

FromVar(pair, vm) ==
    IF pair.text \in CONSTS THEN Ok(Const(Named(pair.text)))
    ELSE IF pair.text \in DOMAIN vm THEN Ok(Var(vm[pair.text]))
    ELSE Err(Error_new_from_span("unknown variable: " \o pair.text, pair))

NegResult(negate, expr) ==
    IF ~expr.ok THEN expr
    ELSE IF negate THEN Ok(Neg(expr.f))
    ELSE expr

\* pair.as_str().starts_with('-')
StartsWithMinus(pair) == pair.text = "-"

FromNeg(pair, vm) == NegResult(StartsWithMinus(pair), FromPair(pair.inner[1], vm))

\* Function::from_pair
FromPair(pair, vm) ==
    CASE pair.rule = "expr" -> FromPair(pair.inner[1], vm)
      [] pair.rule = "add" -> FromMultiOpSequence(pair, "Add", AddOps, vm)
      [] pair.rule = "mul" -> FromMultiOpSequence(pair, "Mul", MulOps, vm)
      [] pair.rule = "neg" -> FromNeg(pair, vm)
      [] pair.rule = "exp" -> FromOpSequence(pair, "Exp", vm)
      [] pair.rule = "call_1" -> FromCall1(pair, vm)
      [] pair.rule = "call_2" -> FromCall2(pair, vm)
      [] pair.rule = "primary" -> FromPair(pair.inner[1], vm)
      [] pair.rule = "primitive" -> FromPair(pair.inner[1], vm)
      [] pair.rule = "var" -> FromVar(pair, vm)
      [] pair.rule = "constant" -> Ok(Const(IntV(LiteralValue(pair.text))))

(***************************************************************************)
(* Function::eval.  Every nested call of eval takes one stack frame; depth *)
(* is the number of frames left, and an evaluation that needs more ends in *)
(* Overflow (the process aborts on stack exhaustion).                      *)
(***************************************************************************)
StackFrames == 16

RECURSIVE Eval(_, _, _, _), EvalAdd(_, _, _, _, _, _), EvalMul(_, _, _, _, _, _),
          EvalExp(_, _, _, _, _, _)

\* a reference that always reads the first assignment
EvalVarFirst(index, t, assigns, depth) ==
    IF IsSome(index) THEN Eval(assigns[1], t, assigns, depth - 1) ELSE t

\* Self::Var(index) => index.map(|i| assigns[i].eval(t, assigns)).unwrap_or(t)
EvalVar(index, t, assigns, depth) ==
    IF IsSome(index) THEN Eval(assigns[Unwrap(index) + 1], t, assigns, depth - 1) ELSE t

\* one step of the fold of Self::Add
AddStep(acc, op, v) ==
    CASE op = "Normal" -> FAdd(acc, v)
      [] op = "Inverse" -> FSub(acc, v)

\* one step of the fold of Self::Mul
MulStep(acc, op, v) ==
    CASE op = "Normal" -> FMul(acc, v)
      [] op = "Inverse" -> FDiv(acc, v)
      [] op = "Third" -> DivEuclid(acc, v)
      [] op = "Fourth" -> RemEuclid(acc, v)

\* fs.iter().fold(0.0, ...) from element k on
EvalAdd(fs, k, acc, t, assigns, depth) ==
    IF k > Len(fs) \/ acc.k = "overflow" THEN acc
    ELSE EvalAdd(fs, k + 1,
                 AddStep(acc, fs[k].op, Eval(fs[k].f, t, assigns, depth - 1)),
                 t, assigns, depth)

\* fs.iter().fold(1.0, ...) from element k on
EvalMul(fs, k, acc, t, assigns, depth) ==
    IF k > Len(fs) \/ acc.k = "overflow" THEN acc
    ELSE EvalMul(fs, k + 1,
                 MulStep(acc, fs[k].op, Eval(fs[k].f, t, assigns, depth - 1)),
                 t, assigns, depth)

\* one step of the fold of Self::Exp: f.eval(t, assigns).powf(acc)
ExpStep(acc, v) == Powf(v, acc)

\* .fold(1.0, ...) over the bases in the order fs, from element k on
EvalExp(fs, k, acc, t, assigns, depth) ==
    IF k > Len(fs) \/ acc.k = "overflow" THEN acc
    ELSE EvalExp(fs, k + 1, ExpStep(acc, Eval(fs[k], t, assigns, depth - 1)),
                 t, assigns, depth)

\* a fold that visits the bases in textual order
ExpOrderTextual(fs) == fs

\* fs.iter().rev(): the order in which the fold of Self::Exp visits the bases
ExpOrder(fs) == [k \in 1..Len(fs) |-> fs[Len(fs) + 1 - k]]

Eval(f, t, assigns, depth) ==
    IF depth <= 0 THEN Overflow
    ELSE CASE f.tag = "Var" -> EvalVar(f.index, t, assigns, depth)
           [] f.tag = "Const" -> f.c
           [] f.tag = "Add" -> EvalAdd(f.fs, 1, IntV(0), t, assigns, depth)
           [] f.tag = "Mul" -> EvalMul(f.fs, 1, IntV(1), t, assigns, depth)
           [] f.tag = "Exp" -> EvalExp(ExpOrder(f.fs), 1, IntV(1), t, assigns, depth)
           [] f.tag = "Neg" -> FNeg(Eval(f.f, t, assigns, depth - 1))
           [] f.tag = "Call1" -> Call1_call(f.call, Eval(f.f, t, assigns, depth - 1))
           [] f.tag = "Call2" ->
                Call2_call(f.call, Eval(f.fs[1], t, assigns, depth - 1),
                           Eval(f.fs[2], t, assigns, depth - 1))

(***************************************************************************)
(* Assigns::from_pairs                                                     *)
(***************************************************************************)
InitVarMap == [name \in {"t"} |-> None]

Insert(vm, name, v) == [n \in DOMAIN vm \cup {name} |-> IF n = name THEN v ELSE vm[n]]

\* a target check that first reports an error of the right-hand side
CheckTargetAfterRhs(vm, pair) ==
    IF ~FromPair(pair.inner[2], Insert(vm, pair.inner[1].text, None)).ok
    THEN FromPair(pair.inner[2], Insert(vm, pair.inner[1].text, None))
    ELSE IF pair.inner[1].text \in DOMAIN vm
    THEN Err(Error_new_from_span("'" \o pair.inner[1].text \o "' is already defined",
                                 pair.inner[1]))
    ELSE IF pair.inner[1].text \in CONSTS
    THEN Err(Error_new_from_span("cannot assign to constant '" \o pair.inner[1].text \o "'",
                                 pair.inner[1]))
    ELSE Ok(pair.inner[1].text)

\* a target check without the contains_key test
CheckTargetConstsOnly(vm, pair) ==
    IF pair.inner[1].text \in CONSTS
    THEN Err(Error_new_from_span("cannot assign to constant '" \o pair.inner[1].text \o "'",
                                 pair.inner[1]))
    ELSE Ok(pair.inner[1].text)

\* a target check without the test against CONSTS
CheckTargetKeysOnly(vm, pair) ==
    IF pair.inner[1].text \in DOMAIN vm
    THEN Err(Error_new_from_span("'" \o pair.inner[1].text \o "' is already defined",
                                 pair.inner[1]))
    ELSE Ok(pair.inner[1].text)

\* the check of the target name of one assign pair
CheckTarget(vm, pair) ==
    LET var == pair.inner[1]
    IN  IF var.text \in DOMAIN vm
        THEN Err(Error_new_from_span("'" \o var.text \o "' is already defined", var))
        ELSE IF var.text \in CONSTS
        THEN Err(Error_new_from_span("cannot assign to constant '" \o var.text \o "'", var))
        ELSE Ok(var.text)

\* an insert that binds every target to the first index
RhsVarMapFirst(vm, name, i) == Insert(vm, name, Some(0))

\* an insert that binds the target to the index after its own
RhsVarMapNext(vm, name, i) == Insert(vm, name, Some(i + 1))

\* var_map.insert(var, Some(i)) and the map the right-hand side is built with
RhsVarMap(vm, name, i) == Insert(vm, name, Some(i))

\* Function::from_pair(pairs.next().unwrap(), &var_map) of one assign pair
BuildRhs(vm, pair) == FromPair(pair.inner[2], vm)

RhsResult(vm2, r) ==
    IF r.ok THEN [ok |-> TRUE, f |-> r.f, var_map |-> vm2]
    ELSE [ok |-> FALSE, error |-> r.error, var_map |-> vm2]

AssignChecked(vm, i, pair, c) ==
    IF ~c.ok THEN [ok |-> FALSE, error |-> c.error, var_map |-> vm]
    ELSE RhsResult(RhsVarMap(vm, c.f, i), BuildRhs(RhsVarMap(vm, c.f, i), pair))

\* the closure of from_pairs on (i, pair): [ok, f | error, var_map]
AssignOne(vm, i, pair) == AssignChecked(vm, i, pair, CheckTarget(vm, pair))

\* pairs.filter(|pair| pair.as_rule() != Rule::EOI)
FilterEOI(ps) == SelectSeq(ps, LAMBDA p : p.rule # "EOI")

RECURSIVE FromPairsFrom(_, _, _, _)

FromPairsNext(ps, i, acc, r) ==
    IF r.ok THEN FromPairsFrom(Tail(ps), i + 1, r.var_map, Append(acc, r.f))
    ELSE [ok |-> FALSE, error |-> r.error]

\* .enumerate().map(closure).collect::<Result<_, _>>() from pair i on
FromPairsFrom(ps, i, vm, acc) ==
    IF ps = <<>> THEN [ok |-> TRUE, assign_vec |-> acc, var_map |-> vm]
    ELSE FromPairsNext(ps, i, acc, AssignOne(vm, i, Head(ps)))

FromPairs(ps) == FromPairsFrom(FilterEOI(ps), 0, InitVarMap, <<>>)

(***************************************************************************)
(* Parametric, ParseError, set_status_text                                 *)
(***************************************************************************)
Parametric_new(x, y, assigns, source_x, source_y, source_assigns) ==
    [x |-> x, y |-> y, assigns |-> assigns, source_x |-> Some(source_x),
     source_y |-> Some(source_y), source_assigns |-> Some(source_assigns)]

\* Parametric::eval, before the conversion to f32
Parametric_eval(p, t) ==
    [x |-> Eval(p.x, t, p.assigns, StackFrames), y |-> Eval(p.y, t, p.assigns, StackFrames)]

ParseError_new(err, label, include_line) ==
    [error |-> err, label |-> label, include_line |-> include_line]

set_status_text(err) ==
    IF IsSome(err)
    THEN LET e == Unwrap(err)
             message_end == IF e.error.variant = "CustomError" THEN e.error.message
                            ELSE "syntax"
             line_message == IF e.include_line
                             THEN "line " \o ToString(e.error.pos.line) \o " " ELSE ""
         IN  [value |-> "Error in " \o e.label \o " (" \o line_message \o "col "
                        \o ToString(e.error.pos.col) \o "): " \o message_end \o "\n",
              color |-> "MAROON"]
    ELSE [value |-> "Successfully entered functions\n", color |-> "DARK_GREEN"]

\* a label that does not tell the two functions apart
AxisLabelX(axis) == "x(t)"

AxisLabel(axis) == axis \o "(t)"

WhereBuilt(r) ==
    IF r.ok THEN r ELSE [ok |-> FALSE, error |-> ParseError_new(r.error, "'where'", TRUE)]

WhereParsed(p) ==
    IF p.ok THEN WhereBuilt(FromPairs(p.pairs[1].inner))
    ELSE [ok |-> FALSE, error |-> ParseError_new(p.error, "'where'", TRUE)]

\* the where-clause part of send_functions: Ok((assigns, var_map)) or the ParseError
CompileWhere(where_str) == WhereParsed(ParseAssigns(where_str))

FuncBuilt(axis, r) ==
    IF r.ok THEN r ELSE [ok |-> FALSE, error |-> ParseError_new(r.error, AxisLabel(axis), FALSE)]

FuncParsed(axis, p, vm) ==
    IF p.ok THEN FuncBuilt(axis, FromPair(p.pairs[1].inner[1], vm))
    ELSE [ok |-> FALSE, error |-> ParseError_new(p.error, AxisLabel(axis), FALSE)]

\* one round of the loop over [("x", fx_str), ("y", fy_str)]
CompileFunc(axis, func, vm) == FuncParsed(axis, ParseFunc(func), vm)

CompiledY(where_str, fx_str, fy_str, w, fx, fy) ==
    IF ~fy.ok THEN fy
    ELSE [ok |-> TRUE,
          parametric |-> Parametric_new(fx.f, fy.f, w.assign_vec, fx_str, fy_str, where_str)]

CompiledX(where_str, fx_str, fy_str, w, fx) ==
    IF ~fx.ok THEN fx
    ELSE CompiledY(where_str, fx_str, fy_str, w, fx, CompileFunc("y", fy_str, w.var_map))

CompiledWhere(where_str, fx_str, fy_str, w) ==
    IF ~w.ok THEN w
    ELSE CompiledX(where_str, fx_str, fy_str, w, CompileFunc("x", fx_str, w.var_map))

\* the compile of send_functions: the Parametric, or the ParseError it reports
Compile(where_str, fx_str, fy_str) ==
    CompiledWhere(where_str, fx_str, fy_str, CompileWhere(where_str))

(***************************************************************************)
(* The game: send_functions, fire_rockets, move_rockets                    *)
(***************************************************************************)
Players == {0, 1}

MaxDelayed == 1
RocketTicks == 2

\* texts a player may have typed into the entry boxes when the event arrives
GameWheres == {<<>>, <<<<"u", "=", "u">>>>, <<<<"t", "=", "1">>>>, <<<<"u", "=">>>>}
GameFx == {<<"t">>, <<"u">>, <<"2", "+", ")">>}
GameFy == {<<"t">>, <<"foo", "3">>}

\* the game does not use the stepwise compile
GameOnly == UNCHANGED <<pairs, idx, var_map, assign_vec, funcs, sample>>

\* an error exit that forgets the stored parametrics and locks the entry
RejectAndReset(err) ==
    /\ status' = set_status_text(Some(err))
    /\ players' = [p \in Players |-> None]
    /\ textboxes_editable' = FALSE
    /\ UNCHANGED <<delayed, buttons_enabled>>

\* the error exits of send_functions: set_status_text(.., Some(error)); continue 'main
Reject(err) ==
    /\ status' = set_status_text(Some(err))
    /\ UNCHANGED <<players, delayed, textboxes_editable, buttons_enabled>>

\* the success exit of send_functions
Accept(player, parametric) ==
    /\ status' = set_status_text(None)
    /\ players' = [players EXCEPT ![player] = Some(parametric)]
    /\ delayed' = delayed + 1
    /\ textboxes_editable' = FALSE
    /\ buttons_enabled' = FALSE

\* what send_functions compiles for each content of the three entry boxes
GameSubmissions == GameWheres \X GameFx \X GameFy

GameCompiled ==
    {[sub |-> sub, result |-> Compile(sub[1], sub[2], sub[3])] : sub \in GameSubmissions}

Compiled(sub) == (CHOOSE c \in GameCompiled : c.sub = sub).result

\* a SendFunctions { player_index } event is sent while the player's entry boxes
\* hold where_str, fx_str and fy_str
EventSent(player) ==
    /\ pc = "game"
    /\ delayed < MaxDelayed
    /\ \E sub \in GameSubmissions :
          input' = [player_index |-> player, where_str |-> sub[1], fx_str |-> sub[2],
                    fy_str |-> sub[3]]
    /\ pc' = "event"
    /\ GameOnly
    /\ UNCHANGED <<players, status, delayed, textboxes_editable, buttons_enabled, rockets,
                   timer, error, seen>>

\* the parts of a submission that are faulty, x(t) and y(t) being built with the
\* names of the where-clause when it has no fault and with t alone otherwise
PartFaultsOf(cw, fx_str, fy_str) ==
    {l \in {"'where'"} : ~cw.ok}
    \cup {l \in {"x(t)"} :
            ~CompileFunc("x", fx_str, IF cw.ok THEN cw.var_map ELSE InitVarMap).ok}
    \cup {l \in {"y(t)"} :
            ~CompileFunc("y", fy_str, IF cw.ok THEN cw.var_map ELSE InitVarMap).ok}

PartFaults(where_str, fx_str, fy_str) ==
    PartFaultsOf(CompileWhere(where_str), fx_str, fy_str)

GameFaults ==
    {[sub |-> sub, faulty |-> PartFaults(sub[1], sub[2], sub[3])] : sub \in GameSubmissions}

Faults(sub) == (CHOOSE c \in GameFaults : c.sub = sub).faulty

\* what the handler does with the result c of the compile
Handle(player, c) ==
    IF c.ok THEN Accept(player, c.parametric) /\ error' = None
    ELSE Reject(c.error) /\ error' = Some(c.error)

\* send_functions on the event read from fire_events
SendFunctions ==
    /\ pc = "event"
    /\ Handle(input.player_index, Compiled(<<input.where_str, input.fx_str, input.fy_str>>))
    /\ pc' = "game"
    /\ input' = <<>>
    /\ seen' = [faulty |-> Faults(<<input.where_str, input.fx_str, input.fy_str>>)]
    /\ GameOnly
    /\ UNCHANGED <<rockets, timer>>

\* parametric.eval(0.0) of some player exhausts the stack
Aborts(ps) ==
    \E p \in Players :
        LET v == Parametric_eval(Unwrap(ps[p]), IntV(0))
        IN  v.x.k = "overflow" \/ v.y.k = "overflow"

\* fire_rockets: every player's parametric is taken and a rocket that follows it
\* is spawned (rockets holds the owners of the rockets in flight)
FireRockets ==
    /\ pc = "game"
    /\ rockets = {}
    /\ \A p \in Players : IsSome(players[p])
    /\ IF Aborts(players)
       THEN pc' = "aborted" /\ UNCHANGED <<players, rockets, timer>>
       ELSE /\ players' = [p \in Players |-> None]
            /\ rockets' = Players
            /\ timer' = 0
            /\ pc' = pc
    /\ GameOnly
    /\ UNCHANGED <<status, delayed, textboxes_editable, buttons_enabled, input, error, seen>>

\* move_rockets on one frame: the timers tick and the rockets whose time is up
\* are despawned; with no rocket in flight the buttons are enabled again
MoveRockets ==
    /\ pc = "game"
    /\ IF rockets # {}
       THEN /\ timer' = timer + 1
            /\ rockets' = IF timer + 1 >= RocketTicks THEN {} ELSE rockets
            /\ UNCHANGED buttons_enabled
       ELSE /\ buttons_enabled' = TRUE
            /\ UNCHANGED <<rockets, timer>>
    /\ GameOnly
    /\ UNCHANGED <<players, status, delayed, textboxes_editable, pc, input, error, seen>>

\* the DelayedEvent::AdvanceTurn fires: the next player may edit
AdvanceTurn ==
    /\ pc = "game"
    /\ delayed > 0
    /\ delayed' = delayed - 1
    /\ textboxes_editable' = TRUE
    /\ GameOnly
    /\ UNCHANGED <<players, status, buttons_enabled, rockets, timer, pc, input, error, seen>>

Init ==
    /\ players = [p \in Players |-> None]
    /\ status = [value |-> "", color |-> ""]
    /\ delayed = 0
    /\ textboxes_editable = TRUE
    /\ buttons_enabled = TRUE
    /\ rockets = {}
    /\ timer = 0
    /\ pc = "game"
    /\ input = <<>>
    /\ pairs = <<>>
    /\ idx = 0
    /\ var_map = InitVarMap
    /\ assign_vec = <<>>
    /\ funcs = <<>>
    /\ error = None
    /\ seen = [faulty |-> {}]
    /\ sample = <<>>

Next ==
    \/ \E player \in Players : EventSent(player)
    \/ SendFunctions
    \/ FireRockets
    \/ MoveRockets
    \/ AdvanceTurn

Spec == Init /\ [][Next]_vars

(***************************************************************************)
(* The compile of one submission, step by step, and one evaluation of the  *)
(* Parametric it produces                                                  *)
(***************************************************************************)
MaxAssigns == 2

AssignLines ==
    {<<"u", "=", "2">>, <<"v", "=", "u", "+", "1">>, <<"u", "=", "u">>, <<"v", "=", "u">>,
     <<"u", "=", "1">>, <<"pi", "=", "1">>, <<"t", "=", "1">>, <<"u", "=", "(">>,
     <<"w", "=", "foo", "3">>, <<"u", "=", "w">>, <<"e", "=", "w">>, <<"tau", "=", "t">>,
     <<"w", "=", "v", "-", "u">>}

WhereInputs == UNION {[1..n -> AssignLines] : n \in 0..MaxAssigns}

FuncInputs ==
    {<<"t">>, <<"v">>, <<"u">>, <<"2", "^", "3", "^", "2">>, <<"2", "^", "2", "^", "3">>,
     <<"-", "7", "%", "2">>, <<"-", "7", "//", "2">>, <<"2", "+", "3", "*", "4">>,
     <<"foo", "3">>, <<"(", "t">>, <<"7", "/", "2", "*", "4", "-", "t", "*", "u">>,
     <<"max", "u", "(", "abs", "(", "-", "t", ")", ")">>, <<"bar", "1", "2">>,
     <<"7", "%", "-", "2", "+", "7", "//", "-", "2">>, <<"foo", "zz">>, <<"bar", "zz", "2">>,
     <<"sin", "zz">>, <<"abs", "(", "max", "1", ")">>, <<"sin", "1", "zz">>}

Samples == {IntV(0), Rat(1, 2), IntV(1)}

CompileOnly ==
    UNCHANGED <<players, delayed, textboxes_editable, buttons_enabled, rockets, timer>>

\* FunctionParser::parse(Rule::assigns, where_str) and the start of from_pairs
ParseWhere ==
    /\ pc = "where"
    /\ LET p == ParseAssigns(input.where_str)
       IN  IF p.ok
           THEN /\ pairs' = FilterEOI(p.pairs[1].inner)
                /\ pc' = "target"
                /\ UNCHANGED <<error, status>>
           ELSE /\ error' = Some(ParseError_new(p.error, "'where'", TRUE))
                /\ status' = set_status_text(error')
                /\ pc' = "rejected"
                /\ UNCHANGED pairs
    /\ idx' = 0
    /\ var_map' = InitVarMap
    /\ seen' = [phase |-> "parse", name |-> "", keys |-> {}, i |-> 0]
    /\ CompileOnly
    /\ UNCHANGED <<input, assign_vec, funcs, sample>>

\* the closure of from_pairs up to var_map.insert(var, Some(i))
CheckStep ==
    /\ pc = "target"
    /\ pairs # <<>>
    /\ LET c == CheckTarget(var_map, Head(pairs))
       IN  IF c.ok
           THEN /\ var_map' = RhsVarMap(var_map, c.f, idx)
                /\ pc' = "rhs"
                /\ UNCHANGED <<error, status>>
           ELSE /\ error' = Some(ParseError_new(c.error, "'where'", TRUE))
                /\ status' = set_status_text(error')
                /\ pc' = "rejected"
                /\ UNCHANGED var_map
    /\ seen' = [phase |-> "target", name |-> Head(pairs).inner[1].text,
                keys |-> DOMAIN var_map, i |-> idx]
    /\ CompileOnly
    /\ UNCHANGED <<input, pairs, idx, assign_vec, funcs, sample>>

\* the closure of from_pairs from Function::from_pair on
RhsStep ==
    /\ pc = "rhs"
    /\ LET r == BuildRhs(var_map, Head(pairs))
       IN  IF r.ok
           THEN /\ assign_vec' = Append(assign_vec, r.f)
                /\ pairs' = Tail(pairs)
                /\ idx' = idx + 1
                /\ pc' = "target"
                /\ UNCHANGED <<error, status>>
           ELSE /\ error' = Some(ParseError_new(r.error, "'where'", TRUE))
                /\ status' = set_status_text(error')
                /\ pc' = "rejected"
                /\ UNCHANGED <<assign_vec, pairs, idx>>
    /\ seen' = [phase |-> "rhs", name |-> Head(pairs).inner[1].text,
                keys |-> DOMAIN var_map, i |-> idx]
    /\ CompileOnly
    /\ UNCHANGED <<input, var_map, funcs, sample>>

\* one round of the loop over [("x", fx_str), ("y", fy_str)]; the last round
\* goes on to Parametric::new and set_status_text(.., None)
FuncStep(axis, func) ==
    /\ LET r == CompileFunc(axis, func, var_map)
       IN  IF r.ok
           THEN /\ funcs' = Append(funcs, r.f)
                /\ pc' = IF axis = "x" THEN "y" ELSE "built"
                /\ status' = IF axis = "x" THEN status ELSE set_status_text(None)
                /\ UNCHANGED error
           ELSE /\ error' = Some(r.error)
                /\ status' = set_status_text(error')
                /\ pc' = "rejected"
                /\ UNCHANGED funcs
    /\ seen' = [phase |-> axis, name |-> "", keys |-> DOMAIN var_map, i |-> idx]
    /\ CompileOnly
    /\ UNCHANGED <<pairs, idx, var_map, assign_vec, sample>>

BuildX ==
    /\ pc = "target"
    /\ pairs = <<>>
    /\ \E func \in FuncInputs :
          /\ input' = [input EXCEPT !.fx_str = func]
          /\ FuncStep("x", func)

BuildY ==
    /\ pc = "y"
    /\ \E func \in FuncInputs :
          /\ input' = [input EXCEPT !.fy_str = func]
          /\ FuncStep("y", func)

\* the Parametric of a compile that has succeeded
Built ==
    Parametric_new(funcs[1], funcs[2], assign_vec, input.fx_str, input.fy_str,
                   input.where_str)

\* Parametric::eval at some t
Evaluate ==
    /\ pc = "built"
    /\ \E t \in Samples : sample' = [t |-> t, v |-> Parametric_eval(Built, t)]
    /\ pc' = "evaluated"
    /\ CompileOnly
    /\ UNCHANGED <<status, input, pairs, idx, var_map, assign_vec, funcs, error, seen>>

InitCompile ==
    /\ players = [p \in Players |-> None]
    /\ status = [value |-> "", color |-> ""]
    /\ delayed = 0
    /\ textboxes_editable = TRUE
    /\ buttons_enabled = TRUE
    /\ rockets = {}
    /\ timer = 0
    /\ pc = "where"
    /\ \E w \in WhereInputs : input = [where_str |-> w, fx_str |-> <<>>, fy_str |-> <<>>]
    /\ pairs = <<>>
    /\ idx = 0
    /\ var_map = InitVarMap
    /\ assign_vec = <<>>
    /\ funcs = <<>>
    /\ error = None
    /\ seen = [phase |-> "none", name |-> "", keys |-> {}, i |-> 0]
    /\ sample = <<>>

NextCompile ==
    \/ ParseWhere
    \/ CheckStep
    \/ RhsStep
    \/ BuildX
    \/ BuildY
    \/ Evaluate

SpecCompile == InitCompile /\ [][NextCompile]_vars

(***************************************************************************)
(* Properties                                                              *)
(***************************************************************************)

\* the submission of the pending event has a fault in some part
EventFaulty == Faults(<<input.where_str, input.fx_str, input.fy_str>>) # {}

\* C1: when send_functions handles a submission with a fault in its where-clause,
\* x(t) or y(t), the step changes nothing but the status text (and the record of
\* that error): every player's stored parametric, the number of AdvanceTurn
\* delayed events, textboxes_editable, buttons_enabled and the rockets keep
\* their values, whatever submissions came before.
C1_RejectionChangesOnlyStatus ==
    [][(pc = "event" /\ EventFaulty) =>
          /\ status'.color = "MAROON"
          /\ UNCHANGED <<players, delayed, textboxes_editable, buttons_enabled, rockets,
                         timer>>]_vars

\* a rejection has been handled while player 0 had a parametric stored by an
\* earlier, accepted submission
C1_Witness ==
    /\ pc = "game"
    /\ IsSome(error)
    /\ status.color = "MAROON"
    /\ IsSome(players[0])
    /\ textboxes_editable
    /\ ~buttons_enabled

\* the first faulty part of a submission in the order where, x(t), y(t), as the
\* ParseError it is reported with; None when no part is faulty
XYFault(fx_str, fy_str, vm) ==
    IF ~ParseFunc(fx_str).ok
    THEN Some(ParseError_new(ParseFunc(fx_str).error, "x(t)", FALSE))
    ELSE IF ~FromPair(ParseFunc(fx_str).pairs[1].inner[1], vm).ok
    THEN Some(ParseError_new(FromPair(ParseFunc(fx_str).pairs[1].inner[1], vm).error,
                             "x(t)", FALSE))
    ELSE IF ~ParseFunc(fy_str).ok
    THEN Some(ParseError_new(ParseFunc(fy_str).error, "y(t)", FALSE))
    ELSE IF ~FromPair(ParseFunc(fy_str).pairs[1].inner[1], vm).ok
    THEN Some(ParseError_new(FromPair(ParseFunc(fy_str).pairs[1].inner[1], vm).error,
                             "y(t)", FALSE))
    ELSE None

FirstFaultOf(where_str, fx_str, fy_str) ==
    IF ~ParseAssigns(where_str).ok
    THEN Some(ParseError_new(ParseAssigns(where_str).error, "'where'", TRUE))
    ELSE IF ~FromPairs(ParseAssigns(where_str).pairs[1].inner).ok
    THEN Some(ParseError_new(FromPairs(ParseAssigns(where_str).pairs[1].inner).error,
                             "'where'", TRUE))
    ELSE XYFault(fx_str, fy_str, FromPairs(ParseAssigns(where_str).pairs[1].inner).var_map)

GameFirstFault ==
    {[sub |-> sub, fault |-> FirstFaultOf(sub[1], sub[2], sub[3])] : sub \in GameSubmissions}

FirstFault(sub) == (CHOOSE c \in GameFirstFault : c.sub = sub).fault

\* C2: a rejected submission reports exactly one error, that of the first faulty
\* part in the order where, x(t), y(t), under that part's label; the status text
\* is the text of that one error.
C2_FirstFaultyPartReported ==
    [][(pc = "event" /\ EventFaulty) =>
          /\ error' = FirstFault(<<input.where_str, input.fx_str, input.fy_str>>)
          /\ IsSome(error')
          /\ status' = set_status_text(error')
          /\ Unwrap(error').label =
                (IF "'where'" \in Faults(<<input.where_str, input.fx_str, input.fy_str>>)
                 THEN "'where'"
                 ELSE IF "x(t)" \in Faults(<<input.where_str, input.fx_str, input.fy_str>>)
                 THEN "x(t)" ELSE "y(t)")]_vars

\* a submission faulty in all three parts was rejected with the error of 'where'
C2_Witness ==
    /\ pc = "game"
    /\ IsSome(error)
    /\ seen.faulty = {"'where'", "x(t)", "y(t)"}
    /\ Unwrap(error).label = "'where'"
    /\ status = set_status_text(error)

\* the target names of the first n assignments of a where-clause
TargetsBefore(where_str, n) == {where_str[j][1] : j \in 1..n}

Message(err) == Unwrap(err).error.message

\* C3: when from_pairs comes to an assignment whose target name is already a key
\* of the resolver, the build fails with "'<name>' is already defined" and goes
\* no further (no assignment list is produced); the keys of the resolver at that
\* point are t and the targets of the earlier assignments of the clause.
C3_DuplicateTargetRejected ==
    seen.phase = "target" =>
        /\ seen.keys = {"t"} \cup TargetsBefore(input.where_str, seen.i)
        /\ seen.name \in seen.keys =>
              /\ pc = "rejected"
              /\ IsSome(error)
              /\ Unwrap(error).error.variant = "CustomError"
              /\ Message(error) = "'" \o seen.name \o "' is already defined"
              /\ Unwrap(error).label = "'where'"
              /\ Len(assign_vec) = seen.i
              /\ funcs = <<>>

\* the second assignment of a clause was rejected as a duplicate of the first
C3_Witness ==
    /\ pc = "rejected"
    /\ seen.phase = "target"
    /\ seen.i = 1
    /\ seen.name = input.where_str[1][1]
    /\ Message(error) = "'u' is already defined"

\* C4: when from_pairs comes to an assignment whose target name is one of the
\* constants tau, pi, e, the build fails with "cannot assign to constant
\* '<name>'"; and no key of the resolver is ever a constant name.
C4_ConstantTargetRejected ==
    /\ DOMAIN var_map \cap {"tau", "pi", "e"} = {}
    /\ (seen.phase = "target" /\ seen.name \in {"tau", "pi", "e"}) =>
          /\ pc = "rejected"
          /\ IsSome(error)
          /\ Unwrap(error).error.variant = "CustomError"
          /\ Message(error) = "cannot assign to constant '" \o seen.name \o "'"
          /\ Unwrap(error).label = "'where'"

\* the assignment pi = 1, coming after another assignment, was rejected
C4_Witness ==
    /\ pc = "rejected"
    /\ seen.phase = "target"
    /\ seen.i = 1
    /\ seen.name = "pi"
    /\ Message(error) = "cannot assign to constant 'pi'"

\* the names a pair refers to as variables
RECURSIVE VarNames(_)
VarNames(pair) ==
    IF pair.rule = "var" THEN {pair.text}
    ELSE UNION {VarNames(pair.inner[k]) : k \in 1..Len(pair.inner)}

\* the right-hand side of the assignment the last step worked on
SeenRhs == ParseAssign(input.where_str[seen.i + 1], seen.i + 1).pair.inner[2]

\* the names of that right-hand side that are no constant, not t and not the
\* target of an earlier assignment
SeenUnresolved ==
    {n \in VarNames(SeenRhs) :
        n \notin CONSTS /\ n # "t" /\ n \notin TargetsBefore(input.where_str, seen.i)}

\* C5: if the right-hand side of an assignment refers to a name that is neither a
\* constant, nor t, nor the target of an earlier assignment, the build of the
\* where-clause fails with "unknown variable: <name>".
C5_UnresolvedNameRejected ==
    (seen.phase = "rhs" /\ SeenUnresolved # {}) =>
        /\ pc = "rejected"
        /\ IsSome(error)
        /\ Message(error) \in {"unknown variable: " \o n : n \in SeenUnresolved}

\* the Var indexes that occur in a Function
RECURSIVE VarIndexes(_)
VarIndexes(f) ==
    CASE f.tag = "Var" -> IF IsSome(f.index) THEN {Unwrap(f.index)} ELSE {}
      [] f.tag = "Const" -> {}
      [] f.tag \in {"Add", "Mul"} -> UNION {VarIndexes(f.fs[k].f) : k \in 1..Len(f.fs)}
      [] f.tag \in {"Exp", "Call2"} -> UNION {VarIndexes(f.fs[k]) : k \in 1..Len(f.fs)}
      [] f.tag \in {"Neg", "Call1"} -> VarIndexes(f.f)

\* C6: while the right-hand side of the j-th assignment is built its own target
\* name is not a key of the resolver, and no built assigns[j] contains
\* Var(some(j)).
C6_NoSelfReference ==
    /\ pc = "rhs" => Head(pairs).inner[1].text \notin DOMAIN var_map
    /\ \A j \in 1..Len(assign_vec) : (j - 1) \notin VarIndexes(assign_vec[j])

\* C7: for every Parametric of a successful compile and every sampled t, the
\* evaluation of x and of y terminates (it does not exhaust the stack).
C7_EvalTerminates ==
    pc = "evaluated" => sample.v.x.k # "overflow" /\ sample.v.y.k # "overflow"

\* an evaluation exhausts the stack only when an assignment refers to itself
OverflowOnlyBySelfReference ==
    (pc = "evaluated" /\ (sample.v.x.k = "overflow" \/ sample.v.y.k = "overflow")) =>
        \E j \in 1..Len(assign_vec) : (j - 1) \in VarIndexes(assign_vec[j])

\* f with every Var(some(i)) replaced by the defining expression assigns[i],
\* down to depth nested replacements
RECURSIVE Inline(_, _, _)
Inline(f, assigns, depth) ==
    CASE f.tag = "Var" ->
            IF IsSome(f.index) /\ depth > 0
            THEN Inline(assigns[Unwrap(f.index) + 1], assigns, depth - 1) ELSE f
      [] f.tag = "Const" -> f
      [] f.tag \in {"Add", "Mul"} ->
            Variant(f.tag, [k \in 1..Len(f.fs) |->
                              [f |-> Inline(f.fs[k].f, assigns, depth), op |-> f.fs[k].op]])
      [] f.tag = "Exp" ->
            Variant(f.tag, [k \in 1..Len(f.fs) |-> Inline(f.fs[k], assigns, depth)])
      [] f.tag = "Neg" -> Neg(Inline(f.f, assigns, depth))
      [] f.tag = "Call1" -> Call1(f.call, Inline(f.f, assigns, depth))
      [] f.tag = "Call2" ->
            Call2(f.call, Inline(f.fs[1], assigns, depth), Inline(f.fs[2], assigns, depth))

\* the line of a where-clause that assigns to name
DefiningLine(where_str, name) ==
    CHOOSE k \in 1..Len(where_str) : where_str[k][1] = name

\* C8: a name the where-clause defines is visible in x(t) and in y(t), where it is
\* built as Var(some(k)) for the k-th assignment (from 0); a reference evaluates to
\* the value of its defining expression at the same t and Var(none) to t, so that
\* x and y evaluate to what they evaluate to with every reference replaced by its
\* defining expression; with u = 2, v = u + 1 and x = v, x is 3 at every t.
C8_ReferenceIsDefinition ==
    /\ \A a \in {"x", "y"} :
          LET text == IF a = "x" THEN input.fx_str ELSE input.fy_str
          IN  (seen.phase = a /\ Len(text) = 1
                  /\ text[1] \in TargetsBefore(input.where_str, Len(input.where_str))) =>
                 /\ pc # "rejected"
                 /\ funcs[Len(funcs)] = Var(Some(DefiningLine(input.where_str, text[1]) - 1))
    /\ pc = "evaluated" =>
          /\ \A f \in {funcs[1], funcs[2]} :
                LET v == Eval(f, sample.t, assign_vec, StackFrames)
                IN  /\ v \in {sample.v.x, sample.v.y}
                    /\ v.k # "overflow" =>
                          v = Eval(Inline(f, assign_vec, Len(assign_vec)), sample.t, <<>>,
                                   StackFrames)
                    /\ f.tag = "Var" =>
                          v = (IF IsSome(f.index)
                               THEN Eval(assign_vec[Unwrap(f.index) + 1], sample.t, assign_vec,
                                         StackFrames)
                               ELSE sample.t)
          /\ (input.where_str = <<<<"u", "=", "2">>, <<"v", "=", "u", "+", "1">>>>
                /\ input.fx_str = <<"v">>) => sample.v.x = IntV(3)

\* x = v and y = u were evaluated at t = 1/2 under u = 2, v = u + 1
C8_Witness ==
    /\ pc = "evaluated"
    /\ input = [where_str |-> <<<<"u", "=", "2">>, <<"v", "=", "u", "+", "1">>>>,
                fx_str |-> <<"v">>, fy_str |-> <<"u">>]
    /\ sample = [t |-> Rat(1, 2), v |-> [x |-> IntV(3), y |-> IntV(2)]]

\* every node of a Function
RECURSIVE Nodes(_)
Nodes(f) ==
    {f} \cup
    CASE f.tag \in {"Var", "Const"} -> {}
      [] f.tag \in {"Add", "Mul"} -> UNION {Nodes(f.fs[k].f) : k \in 1..Len(f.fs)}
      [] f.tag \in {"Exp", "Call2"} -> UNION {Nodes(f.fs[k]) : k \in 1..Len(f.fs)}
      [] f.tag \in {"Neg", "Call1"} -> Nodes(f.f)

BuiltNodes ==
    Nodes(funcs[1]) \cup Nodes(funcs[2])
    \cup UNION {Nodes(assign_vec[j]) : j \in 1..Len(assign_vec)}

\* b1 ^ (b2 ^ (... ^ bn)) of the values bs
RECURSIVE RightAssoc(_)
RightAssoc(bs) == IF Len(bs) = 1 THEN bs[1] ELSE Powf(bs[1], RightAssoc(Tail(bs)))

\* C9: an Exp node holds its operands in textual order and evaluates to
\* b0 ^ (b1 ^ (... ^ bn)); 2 ^ 3 ^ 2 is 512.
C9_ExpRightAssociative ==
    /\ (seen.phase = "x" /\ input.fx_str = <<"2", "^", "2", "^", "3">>) =>
          funcs[1] = Variant("Exp", <<Const(IntV(2)), Const(IntV(2)), Const(IntV(3))>>)
    /\ pc = "evaluated" =>
          /\ \A f \in BuiltNodes :
                f.tag = "Exp" =>
                   Eval(f, sample.t, assign_vec, StackFrames) =
                      RightAssoc([k \in 1..Len(f.fs) |->
                                    Eval(f.fs[k], sample.t, assign_vec, StackFrames)])
          /\ input.fx_str = <<"2", "^", "3", "^", "2">> => sample.v.x = IntV(512)
          /\ input.fx_str = <<"2", "^", "2", "^", "3">> => sample.v.x = IntV(256)

\* 2 ^ 3 ^ 2 and 2 ^ 2 ^ 3 were evaluated
C9_Witness ==
    /\ pc = "evaluated"
    /\ input.fx_str = <<"2", "^", "3", "^", "2">>
    /\ input.fy_str = <<"2", "^", "2", "^", "3">>
    /\ sample.v = [x |-> IntV(512), y |-> IntV(256)]

IsInteger(v) == IsRat(v) /\ v.d = 1
\* 0 <= v < |b| for tracked rationals v and b
InEuclidRange(v, b) == v.n >= 0 /\ v.n * b.d < Abs(b.n) * v.d

\* what one term (op, v) of a Mul node makes of the accumulator acc, stated
\* without the arithmetic of the evaluator: new is the accumulator after the term
MulTermOk(acc, op, v, new) ==
    (IsRat(acc) /\ IsRat(v) /\ IsRat(new) /\ v.n # 0) =>
        CASE op = "Normal" -> new.n * acc.d * v.d = acc.n * v.n * new.d
          [] op = "Inverse" -> new.n * v.n * acc.d = acc.n * v.d * new.d
          [] op = "Third" ->
                /\ IsInteger(new)
                /\ InEuclidRange(FSub(acc, FMul(new, v)), v)
          [] op = "Fourth" ->
                /\ InEuclidRange(new, v)
                /\ IsInteger(FDiv(FSub(acc, new), v))

\* the value of the first n terms of a Mul node
MulPrefix(f, n) == EvalMul(SubSeq(f.fs, 1, n), 1, IntV(1), sample.t, assign_vec, StackFrames)

\* C10: a Mul node evaluates as a left fold from 1: each term multiplies or divides
\* the accumulator, or takes its Euclidean quotient ('//': an integer q with
\* 0 <= acc - q * term < |term|) or its Euclidean remainder ('%': an r with
\* 0 <= r < |term| and acc - r a multiple of the term); -7 % 2 is 1 and
\* -7 // 2 is -4.
C10_MulEuclidean ==
    pc = "evaluated" =>
        /\ \A f \in BuiltNodes :
              f.tag = "Mul" =>
                 /\ MulPrefix(f, 0) = IntV(1)
                 /\ MulPrefix(f, Len(f.fs)) = Eval(f, sample.t, assign_vec, StackFrames)
                 /\ \A n \in 1..Len(f.fs) :
                       MulTermOk(MulPrefix(f, n - 1), f.fs[n].op,
                                 Eval(f.fs[n].f, sample.t, assign_vec, StackFrames),
                                 MulPrefix(f, n))
        /\ input.fx_str = <<"-", "7", "%", "2">> => sample.v.x = IntV(1)
        /\ input.fx_str = <<"-", "7", "//", "2">> => sample.v.x = IntV(-4)
        /\ input.fy_str = <<"7", "%", "-", "2", "+", "7", "//", "-", "2">> =>
              sample.v.y = IntV(-2)
        /\ (input.fx_str = <<"7", "/", "2", "*", "4", "-", "t", "*", "u">>
              /\ input.where_str = <<<<"u", "=", "2">>>>) =>
              sample.v.x = FSub(IntV(14), FMul(sample.t, IntV(2)))

\* -7 % 2 and -7 // 2 were evaluated
C10_Witness ==
    /\ pc = "evaluated"
    /\ input.fx_str = <<"-", "7", "%", "2">>
    /\ input.fy_str = <<"-", "7", "//", "2">>
    /\ sample.v = [x |-> IntV(1), y |-> IntV(-4)]

\* a pair and every pair inside it
RECURSIVE SubPairs(_)
SubPairs(pair) == {pair} \cup UNION {SubPairs(pair.inner[k]) : k \in 1..Len(pair.inner)}

\* the expr pairs of the texts of the submission that parse
InputExprs ==
    {ParseFunc(f).pairs[1].inner[1] :
        f \in {g \in {input.fx_str, input.fy_str} : g # <<>> /\ ParseFunc(g).ok}}
    \cup {ParseAssign(input.where_str[k], k).pair.inner[2] :
            k \in {j \in 1..Len(input.where_str) : ParseAssign(input.where_str[j], j).ok}}

UnknownFunction(kind, name, line, col) ==
    [variant |-> "CustomError", message |-> "unknown " \o kind \o " function: " \o name,
     pos |-> [line |-> line, col |-> col]]

\* C11: building a call_1 (call_2) pair whose function name is not in the unary
\* (binary) registry fails with "unknown unary (binary) function: <name>" at the
\* position of the name, whatever its operands are: the error of the name comes
\* before any error inside the operands.
C11_UnknownFunctionFirst ==
    /\ \A e \in InputExprs : \A c \in SubPairs(e) :
          /\ (c.rule = "call_1" /\ c.inner[1].text \notin CALL_1_FN_MAP) =>
                FromPair(c, var_map) =
                   [ok |-> FALSE,
                    error |-> UnknownFunction("unary", c.inner[1].text, c.line, c.col)]
          /\ (c.rule = "call_2" /\ c.inner[1].text \notin CALL_2_FN_MAP) =>
                FromPair(c, var_map) =
                   [ok |-> FALSE,
                    error |-> UnknownFunction("binary", c.inner[1].text, c.line, c.col)]
    /\ (seen.phase = "x" /\ input.fx_str = <<"foo", "zz">>) =>
          /\ pc = "rejected"
          /\ error = Some(ParseError_new(UnknownFunction("unary", "foo", 1, 1), "x(t)", FALSE))
    /\ (seen.phase = "y" /\ input.fy_str = <<"bar", "zz", "2">>) =>
          /\ pc = "rejected"
          /\ error = Some(ParseError_new(UnknownFunction("binary", "bar", 1, 1), "y(t)", FALSE))
    /\ (seen.phase = "y" /\ input.fy_str = <<"abs", "(", "max", "1", ")">>) =>
          /\ pc = "rejected"
          /\ error = Some(ParseError_new(UnknownFunction("unary", "max", 1, 7), "y(t)", FALSE))
    /\ (seen.phase = "y" /\ input.fy_str = <<"sin", "1", "zz">>) =>
          /\ pc = "rejected"
          /\ error = Some(ParseError_new(UnknownFunction("binary", "sin", 1, 1), "y(t)", FALSE))

\* x(t) = foo zz, an unknown function of an unknown variable, was rejected for foo
C11_Witness ==
    /\ pc = "rejected"
    /\ seen.phase = "x"
    /\ input.fx_str = <<"foo", "zz">>
    /\ "zz" \notin DOMAIN var_map
    /\ Message(error) = "unknown unary function: foo"

\* C12: with n assignments built, every Var(some(i)) inside assigns[j] has i <= j
\* and every Var(some(i)) inside x or y has i < n, so that every index eval reads
\* the assignment list at is in range.
C12_VarIndexInRange ==
    /\ \A j \in 1..Len(assign_vec) : \A i \in VarIndexes(assign_vec[j]) : i >= 0 /\ i <= j - 1
    /\ \A k \in 1..Len(funcs) : \A i \in VarIndexes(funcs[k]) : i >= 0 /\ i < Len(assign_vec)
    /\ pc \in {"built", "evaluated"} =>
          \A f \in BuiltNodes :
             (f.tag = "Var" /\ IsSome(f.index)) => Unwrap(f.index) + 1 \in DOMAIN Built.assigns

\* a Parametric was compiled in which the second assignment and x refer to
\* assignments
C12_Witness ==
    /\ pc = "built"
    /\ Len(assign_vec) = 2
    /\ 0 \in VarIndexes(assign_vec[2])
    /\ 1 \in VarIndexes(funcs[1])
    /\ 0 \in VarIndexes(funcs[2])

\* every node of every Function built so far
AllNodes ==
    UNION {Nodes(funcs[k]) : k \in 1..Len(funcs)}
    \cup UNION {Nodes(assign_vec[j]) : j \in 1..Len(assign_vec)}

\* C13: every Add, Mul and Exp node of a built Function has at least two operands,
\* and an add, mul or exp pair with one operand is built as the Function of that
\* operand.
C13_NoSingletonCombinator ==
    /\ \A f \in AllNodes : f.tag \in {"Add", "Mul", "Exp"} => Len(f.fs) >= 2
    /\ \A e \in InputExprs : \A p \in SubPairs(e) :
          (p.rule \in {"add", "mul", "exp"} /\ Len(p.inner) = 1) =>
             FromPair(p, var_map) = FromPair(p.inner[1], var_map)
    /\ (seen.phase \in {"x", "y"} /\ pc # "rejected" /\ input.fx_str = <<"t">>) =>
          funcs[1] = Var(None)

\* x(t) = t was built as the variable alone, y(t) = 2 + 3 * 4 as a sum of two terms
\* of which the second is a product of two
C13_Witness ==
    /\ pc = "built"
    /\ input.fx_str = <<"t">>
    /\ input.fy_str = <<"2", "+", "3", "*", "4">>
    /\ funcs[1] = Var(None)
    /\ funcs[2].tag = "Add"
    /\ Len(funcs[2].fs) = 2
    /\ funcs[2].fs[2].f.tag = "Mul"

\* the resolver holds t and the targets of the first m assignments, each once,
\* the k-th of them (from 0) bound to some(k)
ResolverOf(m) ==
    /\ m <= Len(input.where_str)
    /\ DOMAIN var_map = {"t"} \cup TargetsBefore(input.where_str, m)
    /\ Cardinality(DOMAIN var_map) = m + 1
    /\ var_map["t"] = None
    /\ \A k \in 1..m : var_map[input.where_str[k][1]] = Some(k - 1)

\* the where-clause has been built
WhereDone == (pc = "target" /\ pairs = <<>>) \/ seen.phase \in {"x", "y"}

\* C14: after a successful build of a where-clause of n assignments the resolver
\* maps t to none and the target of the k-th assignment (from 0) to some(k), with
\* n + 1 keys, and the assignment list holds the n expressions in order; at every
\* step before that the resolver holds t and the targets inserted so far, each
\* once.
C14_ResolverAfterBuild ==
    /\ ResolverOf(idx) \/ ResolverOf(idx + 1)
    /\ pc = "rhs" => ResolverOf(idx + 1)
    /\ pc = "target" => ResolverOf(idx)
    /\ Len(assign_vec) = idx
    /\ WhereDone =>
          /\ idx = Len(input.where_str)
          /\ ResolverOf(Len(input.where_str))
          /\ \A k \in 1..Len(input.where_str) :
                Ok(assign_vec[k]) =
                   FromPair(ParseAssign(input.where_str[k], k).pair.inner[2], var_map)

\* the where-clause u = 2, v = u + 1 has been built
C14_Witness ==
    /\ pc = "target"
    /\ pairs = <<>>
    /\ input.where_str = <<<<"u", "=", "2">>, <<"v", "=", "u", "+", "1">>>>
    /\ var_map = [n \in {"t", "u", "v"} |->
                    IF n = "t" THEN None ELSE IF n = "u" THEN Some(0) ELSE Some(1)]
    /\ Len(assign_vec) = 2

\* the operator an operator token stands for
OpOfToken(w) ==
    CASE w \in {"+", "*"} -> "Normal"
      [] w \in {"-", "/"} -> "Inverse"
      [] w = "//" -> "Third"
      [] w = "%" -> "Fourth"

\* the node built from an add or mul pair of several operands pairs its first
\* operand with Normal and its k-th with the operator of the token before it
OpsFollowTokens(p, f) ==
    /\ f.tag = (IF p.rule = "add" THEN "Add" ELSE "Mul")
    /\ Len(f.fs) = (Len(p.inner) + 1) \div 2
    /\ f.fs[1] = [f |-> FromPair(p.inner[1], var_map).f, op |-> "Normal"]
    /\ \A k \in 2..Len(f.fs) :
          /\ p.inner[2 * k - 2].text \in (IF p.rule = "add" THEN AddSigns ELSE MulSigns)
          /\ f.fs[k] = [f |-> FromPair(p.inner[2 * k - 1], var_map).f,
                        op |-> OpOfToken(p.inner[2 * k - 2].text)]

\* C15: in every Add and Mul node that is built the first operand carries Normal
\* and every later operand the operator of the token before it; the operators of
\* an Add node are Normal and Inverse only, so that the evaluation of Add never
\* comes to its unreachable arm.
C15_OperatorsOfOperands ==
    /\ \A f \in AllNodes :
          /\ f.tag \in {"Add", "Mul"} => f.fs[1].op = "Normal"
          /\ f.tag = "Add" => \A k \in 1..Len(f.fs) : f.fs[k].op \in {"Normal", "Inverse"}
          /\ f.tag = "Mul" =>
                \A k \in 1..Len(f.fs) : f.fs[k].op \in {"Normal", "Inverse", "Third", "Fourth"}
    /\ \A e \in InputExprs : \A p \in SubPairs(e) :
          (p.rule \in {"add", "mul"} /\ Len(p.inner) > 1 /\ FromPair(p, var_map).ok) =>
             OpsFollowTokens(p, FromPair(p, var_map).f)
    /\ (seen.phase \in {"x", "y"} /\ pc # "rejected"
          /\ input.fx_str = <<"7", "/", "2", "*", "4", "-", "t", "*", "u">>) =>
          funcs[1] =
             Variant("Add",
                <<[f |-> Variant("Mul", <<[f |-> Const(IntV(7)), op |-> "Normal"],
                                          [f |-> Const(IntV(2)), op |-> "Inverse"],
                                          [f |-> Const(IntV(4)), op |-> "Normal"]>>),
                   op |-> "Normal"],
                  [f |-> Variant("Mul", <<[f |-> Var(None), op |-> "Normal"],
                                          [f |-> Var(var_map["u"]), op |-> "Normal"]>>),
                   op |-> "Inverse"]>>)

\* x(t) = 7 / 2 * 4 - t * u and y(t) = 7 % - 2 + 7 // - 2 were built
C15_Witness ==
    /\ pc = "built"
    /\ input.fx_str = <<"7", "/", "2", "*", "4", "-", "t", "*", "u">>
    /\ input.fy_str = <<"7", "%", "-", "2", "+", "7", "//", "-", "2">>
    /\ funcs[1].tag = "Add"
    /\ funcs[1].fs[2].op = "Inverse"
    /\ funcs[2].fs[1].f.fs[2].op = "Fourth"
    /\ funcs[2].fs[2].f.fs[2].op = "Third"

\* the target of the k-th line (from 1) of the where-clause is already defined or
\* is a constant
TargetFault(k) ==
    input.where_str[k][1] \in {"t"} \cup TargetsBefore(input.where_str, k - 1) \cup CONSTS

\* the names the right-hand side of the k-th line is built with: t and the
\* targets of the lines 1..k, as the resolver holds them at that point
NamesAt(k) == [n \in {"t"} \cup TargetsBefore(input.where_str, k) |-> None]

\* the build of the right-hand side of the k-th line
RhsBuild(k) == FromPair(ParseAssign(input.where_str[k], k).pair.inner[2], NamesAt(k))

\* the k-th line fails when the build comes to it
LineFaulty(k) == TargetFault(k) \/ ~RhsBuild(k).ok

\* the build of the where-clause has failed
BuildRejected == pc = "rejected" /\ seen.phase \in {"target", "rhs"}

\* C16: the assignments are built from left to right and the build stops at the
\* first that fails: the error reported is that of the earliest faulty assignment,
\* whatever comes after it, and for that assignment a fault of its target name is
\* reported before any fault of its right-hand side.
C16_EarliestFaultReported ==
    /\ Len(assign_vec) = idx
    /\ pc \in {"target", "rhs", "rejected", "y", "built", "evaluated"} /\ seen.phase # "parse" =>
          \A k \in 1..idx : ~LineFaulty(k)
    /\ BuildRejected =>
          /\ seen.i = idx
          /\ idx < Len(input.where_str)
          /\ LineFaulty(idx + 1)
          /\ Unwrap(error).label = "'where'"
          /\ Unwrap(error).error.pos.line = idx + 1
          /\ TargetFault(idx + 1) =>
                /\ seen.phase = "target"
                /\ Unwrap(error).error.pos.col = 1
                /\ Message(error) =
                      (IF input.where_str[idx + 1][1] \in CONSTS
                       THEN "cannot assign to constant '" \o input.where_str[idx + 1][1] \o "'"
                       ELSE "'" \o input.where_str[idx + 1][1] \o "' is already defined")
          /\ ~TargetFault(idx + 1) =>
                /\ seen.phase = "rhs"
                /\ Unwrap(error).error = RhsBuild(idx + 1).error
          /\ input.where_str = <<<<"u", "=", "2">>, <<"w", "=", "foo", "3">>>> =>
                Unwrap(error).error = UnknownFunction("unary", "foo", 2, 5)

\* of the clause e = w, pi = 1, faulty in both lines and in the first both in its
\* target and in its right-hand side, the fault of the target e was reported
C16_Witness ==
    /\ pc = "rejected"
    /\ input.where_str = <<<<"e", "=", "w">>, <<"pi", "=", "1">>>>
    /\ ~RhsBuild(1).ok
    /\ LineFaulty(2)
    /\ Message(error) = "cannot assign to constant 'e'"
    /\ Unwrap(error).error.pos = [line |-> 1, col |-> 1]

=============================================================================
